---- MODULE Spec2Model ----
(***************************************************************************)
(* PanePilot hotkey visibility toggle.                                     *)
(*                                                                         *)
(* The program opens one webview at startup and registers a global hotkey. *)
(* The hotkey callback shows the webview and arms a one-shot handler for   *)
(* the release of the Alt modifier; that handler hides the webview again.  *)
(* Three show/hide builds of the script exist: src/src/index.ts (refreshes *)
(* the html on every press) and the two in src/unnamed/part_000 (the       *)
(* second one logs "alt released").                                        *)
(* Two more builds are modelled under specifications of their own: the    *)
(* timer build of part_000 (TimerSpec), which opens a webview per press    *)
(* and exits it on a timeout, and the press-toggle build at the end of     *)
(* REAME.md (ToggleSpec), which flips the webview on every press.          *)
(*                                                                         *)
(* The script is single-threaded and both callbacks run to completion, so  *)
(* each callback is one action.  `log` is the history of everything the    *)
(* script and the native layer did, in order: the calls into $native, the  *)
(* calls on the webview handle, and the two external events.               *)
(***************************************************************************)
EXTENDS Integers, Sequences, FiniteSets, TLC

(* Bound on the number of external events (presses and unarmed releases). *)
MaxEvents == 6
(* Math.random() in the html template is drawn from 0 .. MaxRandom. *)
MaxRandom == 1

VARIABLES
    variant,   \* which build of the script is running
    visible,   \* `let visible`
    pending,   \* release handlers registered with the native layer, not yet fired
    timers,    \* setTimeout callbacks scheduled and not yet run
    log        \* history of calls and events

vars == <<variant, visible, pending, timers, log>>

Variants == {"index", "part0", "part0log"}

----------------------------------------------------------------------------
(* Log entries. *)
(* Handle of the webview opened at startup: `const wv`. *)
wv == 1

OpenWebview(h)      == [op |-> "openWebview", ret |-> h]
RegisterHotkey      == [op |-> "registerHotkey"]
HotkeyEvent         == [op |-> "hotkey"]
AltUpEvent          == [op |-> "altUp"]
SetHtml(r)          == [op |-> "setHtml", wv |-> wv, arg |-> r]
SetVisible(b)       == [op |-> "setVisible", wv |-> wv, arg |-> b]
RegisterAltRelease(id) == [op |-> "registerAltRelease", id |-> id]
OnReleaseFired(id)  == [op |-> "onRelease", id |-> id]
ConsoleLog          == [op |-> "console.log"]
AssignVisible(b)    == [op |-> "visible=", arg |-> b]

(* Positions of the entries with operation o. *)
Pos(l, o) == {i \in 1..Len(l) : l[i].op = o}
Count(l, o) == Cardinality(Pos(l, o))

(* Number of external events delivered so far. *)
Events(l) == Count(l, "hotkey") + Count(l, "altUp")

(* Identity of the next closure passed to registerAltRelease. *)
NextId(l) == Count(l, "registerAltRelease") + 1

----------------------------------------------------------------------------
(* The script. *)

(* index.ts calls wv.setHtml at the top of the hotkey callback. *)
RefreshesHtml(v) == v = "index"

(* The second build of part_000 logs in the release handler. *)
LogsRelease(v) == v = "part0log"

(* The guard dropped: the callback never returns early. *)
NoShowGuard(vis) == FALSE

(* `if (visible) return;` *)
ShowGuard(vis) == vis

(* The release handler without `visible = false`. *)
OnReleaseKeepsFlag(v, id) ==
    <<OnReleaseFired(id)>> \o
    (IF LogsRelease(v) THEN <<ConsoleLog>> ELSE <<>>) \o
    <<SetVisible(FALSE)>>

(* The release handler without `wv.setVisible(false)`. *)
OnReleaseKeepsShown(v, id) ==
    <<OnReleaseFired(id)>> \o
    (IF LogsRelease(v) THEN <<ConsoleLog>> ELSE <<>>) \o
    <<AssignVisible(FALSE)>>

(* The release handler: the closure passed to registerAltRelease. *)
OnReleaseCalls(v, id) ==
    <<OnReleaseFired(id)>> \o
    (IF LogsRelease(v) THEN <<ConsoleLog>> ELSE <<>>) \o
    <<SetVisible(FALSE), AssignVisible(FALSE)>>

(* The hotkey callback opening a webview of its own on every press. *)
OnPressReopens(v, vis, r, id) ==
    <<OpenWebview(wv + 1)>> \o
    (IF RefreshesHtml(v) THEN <<SetHtml(r)>> ELSE <<>>) \o
    (IF ShowGuard(vis) THEN <<>>
     ELSE <<SetVisible(TRUE), AssignVisible(TRUE), RegisterAltRelease(id)>>)

(* The hotkey callback without the registerAltRelease call. *)
OnPressNeverArms(v, vis, r, id) ==
    (IF RefreshesHtml(v) THEN <<SetHtml(r)>> ELSE <<>>) \o
    (IF ShowGuard(vis) THEN <<>>
     ELSE <<SetVisible(TRUE), AssignVisible(TRUE)>>)

(* The hotkey callback losing its guard in the build that refreshes the   *)
(* html.                                                                  *)
OnPressRefreshUnguarded(v, vis, r, id) ==
    IF RefreshesHtml(v)
    THEN <<SetHtml(r), SetVisible(TRUE), AssignVisible(TRUE), RegisterAltRelease(id)>>
    ELSE IF ShowGuard(vis) THEN <<>>
         ELSE <<SetVisible(TRUE), AssignVisible(TRUE), RegisterAltRelease(id)>>

(* The hotkey callback: what it does, in order, when entered with         *)
(* visible = vis, Math.random() = r and a fresh closure id.               *)
OnPressCalls(v, vis, r, id) ==
    (IF RefreshesHtml(v) THEN <<SetHtml(r)>> ELSE <<>>) \o
    (IF ShowGuard(vis) THEN <<>>
     ELSE <<SetVisible(TRUE), AssignVisible(TRUE), RegisterAltRelease(id)>>)

(* Value of `visible` after a callback that did `calls`. *)
Assigned(calls, vis) ==
    LET a == Pos(calls, "visible=")
    IN  IF a = {} THEN vis
        ELSE calls[CHOOSE i \in a : \A j \in a : j <= i].arg

----------------------------------------------------------------------------
(* The native layer. *)

(* registerAltRelease arms the closure it is given. *)
Armed(p, calls) ==
    p \o [k \in 1..Len(SelectSeq(calls, LAMBDA e : e.op = "registerAltRelease"))
            |-> SelectSeq(calls, LAMBDA e : e.op = "registerAltRelease")[k].id]

(* A release of the modifier runs every armed handler once, in order of   *)
(* registration.                                                          *)
RECURSIVE FireAll(_, _)
FireAll(v, p) ==
    IF p = <<>> THEN <<>>
    ELSE OnReleaseCalls(v, Head(p)) \o FireAll(v, Tail(p))

(* One-shot: a fired handler is disarmed. *)
Disarm(p) == <<>>

----------------------------------------------------------------------------
(* The script starting with `let visible = true`. *)
InitShown ==
    /\ variant \in Variants
    /\ visible = TRUE
    /\ pending = <<>>
    /\ timers = <<>>
    /\ log = <<OpenWebview(wv), RegisterHotkey>>

Init ==
    /\ variant \in Variants
    /\ visible = FALSE
    /\ pending = <<>>
    /\ timers = <<>>
    /\ log = <<OpenWebview(wv), RegisterHotkey>>

(* Alt+A is pressed: the native layer invokes the hotkey callback. *)
HotkeyPress ==
    /\ Events(log) < MaxEvents
    /\ \E r \in 0..MaxRandom :
        /\ RefreshesHtml(variant) \/ r = 0
        /\ LET calls == OnPressCalls(variant, visible, r, NextId(log))
           IN  /\ log' = log \o <<HotkeyEvent>> \o calls
               /\ visible' = Assigned(calls, visible)
               /\ pending' = Armed(pending, calls)
    /\ UNCHANGED <<variant, timers>>

(* Alt is released: the native layer invokes the armed handlers. *)
AltRelease ==
    /\ pending # <<>> \/ Events(log) < MaxEvents
    /\ LET calls == FireAll(variant, pending)
       IN  /\ log' = log \o <<AltUpEvent>> \o calls
           /\ visible' = Assigned(calls, visible)
    /\ pending' = Disarm(pending)
    /\ UNCHANGED <<variant, timers>>

Next == HotkeyPress \/ AltRelease

Spec == Init /\ [][Next]_vars

(* The modifier that is held is eventually let go. *)
FairSpec == Spec /\ WF_vars(AltRelease)

----------------------------------------------------------------------------
(* The timer build (part_000, third script): every press opens a webview  *)
(* of its own and schedules its teardown 2500 ms later.  It declares no   *)
(* `visible` and registers no release handler, so `visible` and `pending` *)
(* never change; no webview is opened at startup.                         *)

SetTimeout(h) == [op |-> "setTimeout", wv |-> h]
OnTimeout(h)  == [op |-> "onTimeout", wv |-> h]
Exit(h)       == [op |-> "exit", wv |-> h]

(* openWebview returns a new handle on every call. *)
NextHandle(l) == Count(l, "openWebview") + 1

(* The hotkey callback that forgets to schedule the teardown. *)
TimerPressNoTimeout(h) == <<OpenWebview(h)>>

(* The hotkey callback: `const wv = openWebview('test'); setTimeout(...)`. *)
TimerPressCalls(h) == <<OpenWebview(h), SetTimeout(h)>>

(* The timeout callback that does not tear the webview down. *)
TimerFireNoExit(h) == <<OnTimeout(h)>>

(* The timeout callback: `wv.exit()` on the handle captured by the closure. *)
TimerFireCalls(h) == <<OnTimeout(h), Exit(h)>>

(* setTimeout queues the closure; equal delays run in scheduling order. *)
Scheduled(t, calls) ==
    t \o [k \in 1..Len(SelectSeq(calls, LAMBDA e : e.op = "setTimeout"))
            |-> SelectSeq(calls, LAMBDA e : e.op = "setTimeout")[k].wv]

TimerInit ==
    /\ variant = "timer"
    /\ visible = FALSE
    /\ pending = <<>>
    /\ timers = <<>>
    /\ log = <<RegisterHotkey>>

(* Alt+A is pressed. *)
TimerPress ==
    /\ Events(log) < MaxEvents
    /\ LET calls == TimerPressCalls(NextHandle(log))
       IN  /\ log' = log \o <<HotkeyEvent>> \o calls
           /\ timers' = Scheduled(timers, calls)
    /\ UNCHANGED <<variant, visible, pending>>

(* The oldest scheduled timeout elapses. *)
TimerFire ==
    /\ timers # <<>>
    /\ log' = log \o TimerFireCalls(Head(timers))
    /\ timers' = Tail(timers)
    /\ UNCHANGED <<variant, visible, pending>>

TimerNext == TimerPress \/ TimerFire \/ AltRelease

TimerSpec == TimerInit /\ [][TimerNext]_vars

(* The process keeps running, so a scheduled timeout elapses. *)
TimerFairSpec == TimerSpec /\ WF_vars(TimerFire)

----------------------------------------------------------------------------
(* The press-toggle build (REAME.md, script at the end): every press      *)
(* flips the webview; it registers no release handler.                    *)

(* The hotkey callback without `visible = !visible`. *)
ToggleKeepsFlag(vis) == <<SetVisible(~vis)>>

(* The hotkey callback: `wv.setVisible(!visible); visible = !visible;`. *)
ToggleCalls(vis) == <<SetVisible(~vis), AssignVisible(~vis)>>

ToggleInit ==
    /\ variant = "toggle"
    /\ visible = FALSE
    /\ pending = <<>>
    /\ timers = <<>>
    /\ log = <<OpenWebview(wv), RegisterHotkey>>

(* Alt+A is pressed. *)
TogglePress ==
    /\ Events(log) < MaxEvents
    /\ LET calls == ToggleCalls(visible)
       IN  /\ log' = log \o <<HotkeyEvent>> \o calls
           /\ visible' = Assigned(calls, visible)
    /\ UNCHANGED <<variant, pending, timers>>

ToggleNext == TogglePress \/ AltRelease

ToggleSpec == ToggleInit /\ [][ToggleNext]_vars

----------------------------------------------------------------------------
(* A show/hide build run from startup on a given sequence of events: the  *)
(* two callbacks as functions of the script state.                        *)

RunInit ==
    [visible |-> FALSE, pending |-> <<>>, log |-> <<OpenWebview(wv), RegisterHotkey>>]

RunPress(v, st, r) ==
    LET calls == OnPressCalls(v, st.visible, r, NextId(st.log))
    IN  [visible |-> Assigned(calls, st.visible),
         pending |-> Armed(st.pending, calls),
         log     |-> st.log \o <<HotkeyEvent>> \o calls]

RunRelease(v, st) ==
    LET calls == FireAll(v, st.pending)
    IN  [visible |-> Assigned(calls, st.visible),
         pending |-> Disarm(st.pending),
         log     |-> st.log \o <<AltUpEvent>> \o calls]

RECURSIVE Run(_, _)
Run(v, evs) ==
    IF evs = <<>> THEN RunInit
    ELSE LET st == Run(v, SubSeq(evs, 1, Len(evs) - 1))
         IN  IF evs[Len(evs)] = "hotkey" THEN RunPress(v, st, 0)
             ELSE RunRelease(v, st)

----------------------------------------------------------------------------
(* Reading the history. *)

Max(S) == CHOOSE x \in S : \A y \in S : y <= x
Min(S) == CHOOSE x \in S : \A y \in S : x <= y

(* Position of the last entry o before i (0 if none), of the first after  *)
(* i (Len + 1 if none).                                                   *)
LastBefore(l, i, o) == Max({0} \cup {j \in Pos(l, o) : j < i})
FirstAfter(l, i, o) == Min({Len(l) + 1} \cup {j \in Pos(l, o) : j > i})

(* Positions of the calls o(b) with a boolean argument. *)
PosArg(l, o, b) == {i \in Pos(l, o) : l[i].arg = b}

(* Positions of the external events. *)
EventPos(l) == Pos(l, "hotkey") \cup Pos(l, "altUp")
NextEvent(l, i) == Min({Len(l) + 1} \cup {j \in EventPos(l) : j > i})

(* Number of entries of the set P strictly between s and e. *)
Between(P, s, e) == Cardinality({j \in P : s < j /\ j < e})

(* Argument of the last setVisible call before position i. *)
ShownBefore(l, i) ==
    LET c == {j \in Pos(l, "setVisible") : j < i}
    IN  IF c = {} THEN FALSE ELSE l[Max(c)].arg

(* What a step appended to the history. *)
Added == SubSeq(log', Len(log) + 1, Len(log'))
PressWhileVisible == visible /\ Len(log') > Len(log) /\ Added[1].op = "hotkey"

----------------------------------------------------------------------------
(* C1: idempotent show.  Every hotkey press lies in a stretch of the      *)
(* history delimited by two consecutive firings of the release handler    *)
(* (or by the start, or by the present); in that stretch setVisible(true) *)
(* is called exactly once and registerAltRelease exactly once, however    *)
(* many presses it holds.  And `visible` is never assigned true twice     *)
(* without an assignment of false in between.                             *)
C1_IdempotentShow ==
    /\ \A i \in Pos(log, "hotkey") :
         LET s == LastBefore(log, i, "onRelease")
             e == FirstAfter(log, i, "onRelease")
         IN  /\ Between(PosArg(log, "setVisible", TRUE), s, e) = 1
             /\ Between(Pos(log, "registerAltRelease"), s, e) = 1
    /\ \A i, j \in PosArg(log, "visible=", TRUE) :
         i < j => Between(PosArg(log, "visible=", FALSE), i, j) >= 1

(* Two presses in a row, then the release. *)
C1_Witness ==
    \E i, j \in Pos(log, "hotkey") :
        /\ i < j
        /\ Between(Pos(log, "altUp"), i, j) = 0
        /\ \E k \in Pos(log, "onRelease") : k > j

(* C2 as stated: a press while Visible calls nothing on the webview,      *)
(* registers nothing and leaves `visible` alone.                          *)
C2_PressWhileVisibleNoCalls ==
    [][PressWhileVisible =>
        /\ Count(Added, "setVisible") = 0
        /\ Count(Added, "setHtml") = 0
        /\ Count(Added, "registerAltRelease") = 0
        /\ pending' = pending
        /\ visible' = visible]_vars

(* C2 amended: a press while Visible makes no setVisible call, registers  *)
(* no release handler, does not assign `visible` and leaves the armed     *)
(* handlers alone; index.ts still makes its one setHtml call, the         *)
(* part_000 builds make no call at all.                                   *)
C2_PressWhileVisibleNoShow ==
    [][PressWhileVisible =>
        /\ Count(Added, "setVisible") = 0
        /\ Count(Added, "registerAltRelease") = 0
        /\ Count(Added, "visible=") = 0
        /\ Count(Added, "setHtml") = (IF variant = "index" THEN 1 ELSE 0)
        /\ Len(Added) = 1 + Count(Added, "setHtml")
        /\ pending' = pending
        /\ visible' = visible]_vars

(* The last thing that happened is a press that found the webview shown. *)
C2_Witness ==
    /\ visible
    /\ log[Len(log)].op \in {"hotkey", "setHtml"}
    /\ Between(PosArg(log, "setVisible", TRUE),
               LastBefore(log, Len(log) + 1, "hotkey"), Len(log) + 1) = 0

(* C3: between callbacks, `visible` is the argument of the last           *)
(* setVisible call, and false when there was none.                        *)
C3_FlagReflectsSurface == visible = ShownBefore(log, Len(log) + 1)

(* Shown for the second time. *)
C3_Witness == visible /\ Count(log, "setVisible") >= 3

(* C4: a release event hides the webview exactly once if a show is        *)
(* outstanding and leaves the toggle Hidden; a release event with no show *)
(* outstanding makes no setVisible(false) call.                           *)
C4_HiddenOncePerShow ==
    \A i \in Pos(log, "altUp") :
        LET e == NextEvent(log, i)
        IN  /\ Between(PosArg(log, "setVisible", FALSE), i, e)
                   = (IF ShownBefore(log, i) THEN 1 ELSE 0)
            /\ ~ShownBefore(log, e)
            /\ e = Len(log) + 1 => ~visible

(* A show, its release, and one more release. *)
C4_Witness ==
    /\ Count(log, "onRelease") >= 1
    /\ log[Len(log)].op = "altUp"

(* C5: at most one release handler is armed. *)
C5_OnePending == Len(pending) <= 1

(* A handler is armed and a press has come in since. *)
C5_Witness ==
    /\ Len(pending) = 1
    /\ Between(Pos(log, "hotkey"),
               LastBefore(log, Len(log) + 1, "registerAltRelease"),
               Len(log) + 1) >= 1

(* Release handlers by identity. *)
RegPos(l, id) == {i \in Pos(l, "registerAltRelease") : l[i].id = id}
FiredPos(l, id) == {k \in Pos(l, "onRelease") : l[k].id = id}

(* C6: a registered release handler fires at most once, and only after    *)
(* the setVisible(true) of the hotkey callback that registered it; when a *)
(* handler is registered, every handler registered before has fired.      *)
C6_OneShotAfterShow ==
    /\ \A i \in Pos(log, "registerAltRelease") :
         /\ Cardinality(FiredPos(log, log[i].id)) <= 1
         /\ \A k \in FiredPos(log, log[i].id) : k > i
         /\ Between(PosArg(log, "setVisible", TRUE),
                    LastBefore(log, i, "hotkey"), i) = 1
         /\ \A j \in Pos(log, "registerAltRelease") :
              j < i => \E k \in FiredPos(log, log[j].id) : k < i
    /\ \A k \in Pos(log, "onRelease") :
         \E i \in RegPos(log, log[k].id) : i < k

(* The handler of a second show has fired. *)
C6_Witness ==
    \E k \in Pos(log, "onRelease") :
        /\ log[k].id >= 2
        /\ Between(Pos(log, "hotkey"), LastBefore(log, k, "registerAltRelease"), k) >= 2

(* Complete cycles: release events with at least one press since the      *)
(* release event before.                                                  *)
Cycles(l) ==
    Cardinality({i \in Pos(l, "altUp") :
        Between(Pos(l, "hotkey"), LastBefore(l, i, "altUp"), i) >= 1})

(* No press since the last release event. *)
AtCycleEnd(l) ==
    Between(Pos(l, "hotkey"), LastBefore(l, Len(l) + 1, "altUp"), Len(l) + 1) = 0

(* C7: round trip.  After n complete press/release cycles `visible` is    *)
(* false, no release handler is armed, and setVisible(true) and           *)
(* setVisible(false) have each been called n times.                       *)
C7_RoundTrip ==
    AtCycleEnd(log) =>
        /\ ~visible
        /\ pending = <<>>
        /\ Cardinality(PosArg(log, "setVisible", TRUE)) = Cycles(log)
        /\ Cardinality(PosArg(log, "setVisible", FALSE)) = Cycles(log)

(* Two cycles done, one of them with an extra press. *)
C7_Witness ==
    /\ AtCycleEnd(log)
    /\ Cycles(log) = 2
    /\ Count(log, "hotkey") >= 3

(* First press after a complete cycle. *)
ReArming(l, i) ==
    /\ l[i].op = "hotkey"
    /\ l[Max({j \in EventPos(l) : j < i} \cup {1})].op = "altUp"
    /\ Between(Pos(l, "hotkey"), 0, i) >= 1

(* C8: re-arming.  The first press after a complete cycle shows the       *)
(* webview once more and registers a handler that was never registered    *)
(* before; the next release event fires that handler and no other, and    *)
(* calls setVisible(false) once; no handler ever fires twice.             *)
C8_ReArming ==
    /\ \A i \in Pos(log, "hotkey") : ReArming(log, i) =>
         LET e == NextEvent(log, i)
             u == FirstAfter(log, i, "altUp")
             r == {j \in Pos(log, "registerAltRelease") : i < j /\ j < e}
         IN  /\ Between(PosArg(log, "setVisible", TRUE), i, e) = 1
             /\ Cardinality(r) = 1
             /\ \A j \in r : RegPos(log, log[j].id) = {j}
             /\ u <= Len(log) =>
                  /\ Between(PosArg(log, "setVisible", FALSE), u, NextEvent(log, u)) = 1
                  /\ \A j \in r :
                       {k \in Pos(log, "onRelease") : u < k /\ k < NextEvent(log, u)}
                           = FiredPos(log, log[j].id)
    /\ \A k \in Pos(log, "onRelease") :
         Cardinality(FiredPos(log, log[k].id)) = 1

(* The second cycle has been released. *)
C8_Witness ==
    \E i \in Pos(log, "hotkey") :
        /\ ReArming(log, i)
        /\ FirstAfter(log, i, "altUp") <= Len(log)

(* C9: liveness.  With the modifier eventually released, a Visible toggle *)
(* becomes Hidden, the last call on the webview being setVisible(false).  *)
C9_EventuallyHidden ==
    visible ~> (~visible /\ ~ShownBefore(log, Len(log) + 1))

(* Hidden by the release handler just now. *)
C9_Witness ==
    /\ ~visible
    /\ log[Len(log)].op = "visible="
    /\ Count(log, "onRelease") >= 1

(* Calls on a webview handle. *)
SurfacePos(l) == Pos(l, "setVisible") \cup Pos(l, "setHtml")

(* C10: the webview is opened once, at startup, and never exited; every   *)
(* setVisible and setHtml call is made on that handle.                    *)
C10_SurfaceCreatedOnce ==
    /\ Pos(log, "openWebview") = {1}
    /\ Count(log, "exit") = 0
    /\ \A i \in SurfacePos(log) : log[i].wv = log[1].ret

(* Shown and hidden twice over. *)
C10_Witness ==
    /\ Count(log, "setVisible") >= 4
    /\ Count(log, "altUp") >= 2

(* A step that shows: the hotkey callback, entered Hidden. *)
ShowStep ==
    /\ ~visible /\ visible'
    /\ Added[1].op = "hotkey"
    /\ Cardinality(PosArg(Added, "setVisible", TRUE)) = 1

(* A step that hides: a release event that ran a registered handler. *)
FireStep ==
    /\ visible /\ ~visible'
    /\ Added[1].op = "altUp"
    /\ Count(Added, "onRelease") >= 1

(* A release event while Hidden with no handler armed. *)
IdleRelease ==
    /\ ~visible /\ pending = <<>>
    /\ Len(log') > Len(log) /\ Added[1].op = "altUp"

(* C12: before the first event the toggle is Hidden, setVisible has not   *)
(* been called and no release handler is armed; `visible` changes only in *)
(* a show step and in a step that fires a registered release handler; a   *)
(* release event while Hidden with no handler armed makes no setVisible   *)
(* call and leaves `visible` false.                                       *)
C12_HiddenAtStartFrame ==
    /\ [](Events(log) = 0 =>
            ~visible /\ Count(log, "setVisible") = 0 /\ pending = <<>>)
    /\ [][/\ visible' # visible =>
               Len(log') > Len(log) /\ (ShowStep \/ FireStep)
          /\ IdleRelease =>
               Count(Added, "setVisible") = 0 /\ visible' = FALSE]_vars

(* The very first event is a release. *)
C12_Witness ==
    /\ Events(log) = 1
    /\ log[Len(log)].op = "altUp"
    /\ ~visible

(* C13: `visible` is true exactly when one release handler is armed and   *)
(* false exactly when none is.                                            *)
C13_VisibleIffArmed == Len(pending) = (IF visible THEN 1 ELSE 0)

(* Armed again in a later cycle. *)
C13_Witness ==
    /\ visible
    /\ Len(pending) = 1
    /\ pending[1] >= 2

(* Webview handles by identity. *)
OpenedPos(l, h) == {i \in Pos(l, "openWebview") : l[i].ret = h}
ExitPos(l, h) == {i \in Pos(l, "exit") : l[i].wv = h}
TimeoutPos(l, h) == {i \in Pos(l, "setTimeout") : l[i].wv = h}
ElapsedPos(l, h) == {i \in Pos(l, "onTimeout") : l[i].wv = h}
InSeq(q, x) == \E k \in 1..Len(q) : q[k] = x

(* Webviews opened and not exited. *)
Live(l) ==
    {h \in 1..Len(l) : OpenedPos(l, h) # {} /\ ExitPos(l, h) = {}}

(* C11: in the timer build every press opens a webview no press opened    *)
(* before and schedules one timeout for it; a scheduled timeout stays     *)
(* scheduled until it elapses, whatever happens in between; exit is       *)
(* called at most once per webview, by the timeout scheduled in the press *)
(* that opened it; and every webview opened is eventually exited.         *)
C11_TeardownPerSurface ==
    /\ [](/\ \A i \in Pos(log, "hotkey") :
               /\ i + 2 <= Len(log)
               /\ log[i + 1].op = "openWebview"
               /\ OpenedPos(log, log[i + 1].ret) = {i + 1}
               /\ TimeoutPos(log, log[i + 1].ret) = {i + 2}
          /\ \A i \in Pos(log, "setTimeout") :
               InSeq(timers, log[i].wv) # (ElapsedPos(log, log[i].wv) # {})
          /\ \A k \in Pos(log, "exit") :
               /\ ExitPos(log, log[k].wv) = {k}
               /\ ElapsedPos(log, log[k].wv) = {k - 1}
               /\ \E i \in TimeoutPos(log, log[k].wv) : i < k)
    /\ \A h \in 1..MaxEvents :
         (OpenedPos(log, h) # {}) ~> (ExitPos(log, h) # {})

(* A webview exited although another press came in before its timeout. *)
C11_Witness ==
    \E k \in Pos(log, "exit") :
        \E i \in OpenedPos(log, log[k].wv) :
            Between(Pos(log, "hotkey"), i, k) >= 1

(* C14: the timer build has no guard.  The number of live webviews is the *)
(* number of presses whose timeout has not elapsed, which is the number   *)
(* of scheduled timeouts; as long as no timeout has elapsed it is the     *)
(* number of presses, and it exceeds one.                                 *)
C14_LiveSurfacesUnguarded ==
    /\ Cardinality(Live(log)) = Count(log, "hotkey") - Count(log, "onTimeout")
    /\ Cardinality(Live(log)) = Len(timers)
    /\ Count(log, "onTimeout") = 0 => Cardinality(Live(log)) = Count(log, "hotkey")

(* Three presses before the first timeout: three webviews alive. *)
C14_Witness ==
    /\ Count(log, "onTimeout") = 0
    /\ Count(log, "hotkey") = 3
    /\ Cardinality(Live(log)) = 3

(* C16: in the press-toggle build `visible` is true exactly after an odd  *)
(* number of presses; every press calls setVisible once, with the         *)
(* negation of the argument of the call before (of false for the first);  *)
(* `visible` is the argument of the last setVisible call; a release event *)
(* causes no call and no assignment.                                      *)
C16_PressToggles ==
    /\ visible = (Count(log, "hotkey") % 2 = 1)
    /\ visible = ShownBefore(log, Len(log) + 1)
    /\ \A i \in Pos(log, "hotkey") :
         LET c == {j \in Pos(log, "setVisible") : i < j /\ j < NextEvent(log, i)}
         IN  /\ Cardinality(c) = 1
             /\ \A j \in c : log[j].arg = ~ShownBefore(log, j)
    /\ \A i \in Pos(log, "altUp") : NextEvent(log, i) = i + 1

(* Shown, hidden and shown again, with a release somewhere in between. *)
C16_Witness ==
    /\ Count(log, "hotkey") = 3
    /\ Count(log, "altUp") >= 1
    /\ visible
    /\ log[Len(log)].op = "altUp"

(* The external events of a history, in order. *)
EventsOf(l) ==
    LET m == SelectSeq(l, LAMBDA e : e.op \in {"hotkey", "altUp"})
    IN  [k \in 1..Len(m) |-> m[k].op]

(* A history without the setHtml calls and the log lines. *)
Common(l) == SelectSeq(l, LAMBDA e : e.op \notin {"setHtml", "console.log"})

(* Entries of two histories agree: same operation, same argument. *)
SameEntry(a, b) ==
    /\ a.op = b.op
    /\ a.op \in {"setVisible", "visible="} => a.arg = b.arg
    /\ a.op \in {"registerAltRelease", "onRelease"} => a.id = b.id
    /\ a.op = "setVisible" => a.wv = b.wv
    /\ a.op = "openWebview" => a.ret = b.ret
SameHistory(x, y) ==
    /\ Len(x) = Len(y)
    /\ \A k \in 1..Len(x) : SameEntry(x[k], y[k])

====
